---- MODULE Spec2Model ----
(***************************************************************************)
(* Chimera: omnichain deployment engine.                                   *)
(*                                                                         *)
(* The model covers the SDK: Deployer (single-target deployment in direct  *)
(* and CREATE2 mode, the parallel dispatcher, gas estimation, the CREATE2  *)
(* address calculation), Chimera (target selection, deploy, manifest       *)
(* saving) and ManifestManager (the deployments manifest).                 *)
(*                                                                         *)
(* Units: gas is counted in gas units; a gas price is counted in units of  *)
(* 10^6 wei (0.001 gwei), and so are balances and required funds. Strings  *)
(* that the code slices or concatenates (hex data) are sequences of        *)
(* one-character strings; addresses, hashes and ids are tuples that stand  *)
(* for the digest of their components.                                     *)
(***************************************************************************)
EXTENDS Integers, Sequences, FiniteSets, TLC

\* ------------------------------------------------------------------ bounds

\* Longest target list handed directly to the parallel dispatcher.
MaxTargets == 2

\* ------------------------------------------------------- program constants

\* deployer.ts:437  + 100000n
ESTIMATE_BUFFER == 100000
\* deployer.ts:456  gasLimit = 3000000n
FALLBACK_GAS_LIMIT == 3000000
\* deployer.ts:218  .catch(() => 5000000n)
CREATE2_FALLBACK_ESTIMATE == 5000000
\* deployer.ts:220  + 500000n
CREATE2_BUFFER == 500000
\* deployer.ts:449  parseUnits('0.01', 'gwei') = 10^7 wei
MIN_GAS_PRICE == 10
\* deployer.ts:452  parseUnits('0.1', 'gwei') = 10^8 wei
DEFAULT_GAS_PRICE == 100

\* A null or undefined bigint (feeData.maxFeePerGas, feeData.gasPrice).
NULL == 0 - 1

\* JavaScript truthiness of a bigint | null value.
Truthy(v) == v # NULL /\ v # 0

\* ------------------------------------------------------------- hex strings

HexPrefix == <<"0", "x">>

StartsWith0x(s) == Len(s) >= 2 /\ SubSeq(s, 1, 2) = HexPrefix

\* s.slice(2)
Slice2(s) == SubSeq(s, 3, Len(s))

RECURSIVE Repeat(_, _)
Repeat(s, n) == IF n = 0 THEN <<>> ELSE s \o Repeat(s, n - 1)

CREATE2_FACTORY_ADDRESS == <<"0x4e59b44847b379578588920cA78FbF26c0B4956C">>

DEFAULT_CREATE2_SALT == HexPrefix \o Repeat(<<"0", "0">>, 31) \o <<"0", "1">>

\* An absent (undefined) salt, and a custom one (a 32-byte value, shortened
\* to one byte).
NO_SALT == <<>>
CustomSalt == HexPrefix \o <<"1", "2">>

\* ------------------------------------------------------ result placeholders

ADDRESS_PLACEHOLDER == <<"0x0">>
EMPTY_TXHASH == <<>>
\* Error messages are tuples of their parts; an absent error is the empty tuple.
NO_ERROR == <<>>

\* ------------------------------------------------------------------ inputs

GoodContract == "contracts/Token.sol"
BrokenContract == "contracts/Broken.sol"
ContractPaths == {GoodContract, BrokenContract}

NO_KEY == ""
InvalidKey == "not-a-key"
ValidKey == "0xKEY1"
PrivateKeys == {NO_KEY, InvalidKey, ValidKey}

EthereumSepolia ==
    [name |-> "Ethereum Sepolia", rpc |-> "https://rpc.sepolia.org", chainId |-> 11155111]
ScrollSepolia ==
    [name |-> "Scroll Sepolia", rpc |-> "https://sepolia-rpc.scroll.io", chainId |-> 534351]

DefaultConfig == <<EthereumSepolia, ScrollSepolia>>

\* Replies of a target's RPC endpoint.
GasEstimates == {100001}
FeeValues == {NULL, 0, 5, 200}
FeeDataReplies ==
    [error : {FALSE}, maxFeePerGas : FeeValues, gasPrice : FeeValues]
    \cup {[error |-> TRUE, maxFeePerGas |-> NULL, gasPrice |-> NULL]}
Balances == {100000000, 2000000000}
Nonces == {3}
BlockNumbers == {7}
ReceiptReplies ==
    {[kind |-> "timeout", status |-> 0, blockNumber |-> 0],
     [kind |-> "null", status |-> 0, blockNumber |-> 0]}
    \cup [kind : {"receipt"}, status : {0, 1}, blockNumber : BlockNumbers]

\* ------------------------------------------------------------- Deployer

\* compileContract: the artifact of a contract path, or the error it throws.
CompileContract(contractPath) ==
    IF contractPath = GoodContract
    THEN [error |-> NO_ERROR,
          abi |-> <<"constructor(uint256)">>,
          bytecode |-> <<"6", "0", "8", "0">>,
          contractName |-> "Token"]
    ELSE [error |-> <<"Compilation error: ParserError">>,
          abi |-> <<>>,
          bytecode |-> <<>>,
          contractName |-> ""]

\* options.privateKey || process.env.PRIVATE_KEY
EffectiveKey(options, envKey) ==
    IF options.privateKey # NO_KEY THEN options.privateKey ELSE envKey

\* new ethers.Wallet(privateKey): throws on a key that is no private key.
WalletThrows(privateKey) == privateKey # ValidKey

\* wallet.address
WalletAddress(privateKey) == <<"address-of", privateKey>>

\* ABI encoding of one uint256 argument (a 32-byte word, shortened to a byte).
AbiEncode(args) ==
    HexPrefix \o (IF args[1] = 42 THEN <<"2", "a">> ELSE <<"0", "0">>)

\* encodeConstructorArgs
EncodeConstructorArgs(abi, args) ==
    IF Len(args) = 0 THEN HexPrefix
    ELSE IF Len(abi) = 0 THEN HexPrefix
    ELSE AbiEncode(args)

\* A concatenation that keeps the 0x prefix of the encoded arguments.
CreateDeployBytecode_KeepsArgsPrefix(bytecode, constructorArgs) ==
    HexPrefix \o bytecode \o constructorArgs

\* createDeployBytecode
CreateDeployBytecode(bytecode, constructorArgs) ==
    LET bytecodeClean == IF StartsWith0x(bytecode) THEN Slice2(bytecode) ELSE bytecode
        argsClean == IF StartsWith0x(constructorArgs)
                     THEN Slice2(constructorArgs) ELSE constructorArgs
    IN  HexPrefix \o bytecodeClean \o argsClean

\* ethers.keccak256, as the digest of its input.
Keccak256(data) == <<"keccak256", data>>

\* calculateCREATE2Address: the last 20 bytes of
\* keccak256(0xff ++ factoryAddress ++ salt ++ keccak256(bytecode)).
CalculateCREATE2Address(salt, bytecode, factoryAddress) ==
    LET initCodeHash == Keccak256(bytecode)
    IN  <<"address", Keccak256(<<"0xff", factoryAddress, salt, initCodeHash>>)>>

\* The address ethers derives for a contract created by a plain transaction:
\* a function of the sender and the sender's nonce on that network.
CreateAddress(from, nonce) == <<"address", Keccak256(<<from, nonce>>)>>

\* The hash of a transaction signed for one network with one nonce.
TxHashOf(chainId, nonce) == <<"txhash", chainId, nonce>>

\* options.salt || DEFAULT_CREATE2_SALT
EffectiveSalt(options) ==
    IF options.salt # NO_SALT THEN options.salt ELSE DEFAULT_CREATE2_SALT

\* estimateGas, line 437: (estimatedGas * 120n / 100n) + 100000n
DirectGasLimit(estimatedGas) == ((estimatedGas * 120) \div 100) + ESTIMATE_BUFFER

\* estimateGas, lines 441-453: the fee per gas, or the throw of line 446.
ResolveGasPrice(feeData) ==
    LET chosen == IF Truthy(feeData.maxFeePerGas) THEN feeData.maxFeePerGas
                  ELSE IF Truthy(feeData.gasPrice) THEN feeData.gasPrice
                  ELSE NULL
    IN  IF chosen = NULL THEN [threw |-> TRUE, gasPrice |-> 0]
        ELSE IF chosen < MIN_GAS_PRICE THEN [threw |-> FALSE, gasPrice |-> DEFAULT_GAS_PRICE]
        ELSE [threw |-> FALSE, gasPrice |-> chosen]

\* deployToChainCREATE2, line 220: BigInt(Math.floor(Number(gasEstimate) * 1.2)) + 500000n
Create2GasLimit(gasEstimate) == ((gasEstimate * 12) \div 10) + CREATE2_BUFFER

\* deployToChainCREATE2, line 222: feeData.gasPrice || parseUnits('0.1', 'gwei')
Create2GasPrice(feeData) ==
    IF Truthy(feeData.gasPrice) THEN feeData.gasPrice ELSE DEFAULT_GAS_PRICE

\* A balance check that forgets the gas price.
InsufficientFunds_IgnoresGasPrice(balance, gasLimit, gasPrice) == balance < gasLimit

\* The balance check of both modes: balance < gasLimit * gasPrice.
InsufficientFunds(balance, gasLimit, gasPrice) == balance < gasLimit * gasPrice

\* The message of lines 128-131 and 229-232.
InsufficientFundsMessage(chain, requiredFunds, balance) ==
    <<"Insufficient funds on ", chain.name, ". Required: ", requiredFunds,
      " ETH, Balance: ", balance, " ETH">>

\* A failure result that carries the dispatcher's placeholder name and chain
\* id instead of the target's.
FailureResult_NamesUnknown(chain, message) ==
    [chain |-> "Unknown",
     chainId |-> 0,
     address |-> ADDRESS_PLACEHOLDER,
     txHash |-> EMPTY_TXHASH,
     blockNumber |-> 0,
     success |-> FALSE,
     error |-> message,
     salt |-> NO_SALT]

\* The result of the catch block of deployToChain and deployToChainCREATE2.
FailureResult(chain, message) ==
    [chain |-> chain.name,
     chainId |-> chain.chainId,
     address |-> ADDRESS_PLACEHOLDER,
     txHash |-> EMPTY_TXHASH,
     blockNumber |-> 0,
     success |-> FALSE,
     error |-> message,
     salt |-> NO_SALT]

\* A success result whose address is the one the network reports for the
\* transaction instead of the one passed in.
SuccessResult_AddressFromNetwork(chain, address, txHash, blockNumber, salt) ==
    [chain |-> chain.name,
     chainId |-> chain.chainId,
     address |-> <<"address", Keccak256(txHash)>>,
     txHash |-> txHash,
     blockNumber |-> blockNumber,
     success |-> TRUE,
     error |-> NO_ERROR,
     salt |-> salt]

\* The result returned on success.
SuccessResult(chain, address, txHash, blockNumber, salt) ==
    [chain |-> chain.name,
     chainId |-> chain.chainId,
     address |-> address,
     txHash |-> txHash,
     blockNumber |-> blockNumber,
     success |-> TRUE,
     error |-> NO_ERROR,
     salt |-> salt]

\* The error thrown by the synchronous prefix of deployToChain (lines 107-118)
\* and deployToChainCREATE2 (lines 183-211), NO_ERROR when it reaches its
\* first network call.
StartError(useCreate2, contractPath, options, envKey) ==
    LET artifact == CompileContract(contractPath)
        privateKey == EffectiveKey(options, envKey)
    IN  IF artifact.error # NO_ERROR THEN artifact.error
        ELSE IF privateKey = NO_KEY
        THEN (IF useCreate2 THEN <<"Private key is required">>
              ELSE <<"Private key is required. Set PRIVATE_KEY env var or use --privateKey flag.">>)
        ELSE IF WalletThrows(privateKey) THEN <<"invalid private key">>
        ELSE NO_ERROR

\* The init code and calldata of a CREATE2 deployment (lines 195-211).
InitCode(contractPath, options) ==
    LET artifact == CompileContract(contractPath)
    IN  CreateDeployBytecode(artifact.bytecode,
                             EncodeConstructorArgs(artifact.abi, options.args))

Create2Calldata(contractPath, options) ==
    EffectiveSalt(options) \o Slice2(InitCode(contractPath, options))

\* The data of the contract-creation transaction ethers' ContractFactory builds:
\* the bytecode followed by the encoded constructor arguments.
DirectCalldata(contractPath, options) ==
    LET artifact == CompileContract(contractPath)
    IN  HexPrefix \o artifact.bytecode
          \o Slice2(EncodeConstructorArgs(artifact.abi, options.args))

\* ------------------------------------------------- the parallel dispatcher

\* The value pushed for a rejected promise (lines 317-325).
UnknownResult(reason) ==
    [chain |-> "Unknown",
     chainId |-> 0,
     address |-> ADDRESS_PLACEHOLDER,
     txHash |-> EMPTY_TXHASH,
     blockNumber |-> 0,
     success |-> FALSE,
     error |-> reason,
     salt |-> NO_SALT]

\* A loop step that keeps only the successful results.
ProcessResult_OmitsFailed(acc, result) ==
    IF result.status = "fulfilled" /\ result.value.success
    THEN [results |-> Append(acc.results, result.value),
          successful |-> acc.successful + 1,
          failed |-> acc.failed]
    ELSE [results |-> acc.results,
          successful |-> acc.successful,
          failed |-> acc.failed + 1]

\* The loop over the settled promises (lines 299-329): one step, then all.
ProcessResult(acc, result) ==
    IF result.status = "fulfilled"
    THEN [results |-> Append(acc.results, result.value),
          successful |-> IF result.value.success THEN acc.successful + 1 ELSE acc.successful,
          failed |-> IF result.value.success THEN acc.failed ELSE acc.failed + 1]
    ELSE [results |-> Append(acc.results, UnknownResult(result.reason)),
          successful |-> acc.successful,
          failed |-> acc.failed + 1]

\* A loop that counts a failure only for a rejected promise.
RECURSIVE ProcessResults_CountsOnlyRejections(_, _)
ProcessResults_CountsOnlyRejections(results, n) ==
    IF n = 0 THEN [results |-> <<>>, successful |-> 0, failed |-> 0]
    ELSE LET acc == ProcessResults_CountsOnlyRejections(results, n - 1)
             result == results[n]
         IN  IF result.status = "fulfilled"
             THEN [results |-> Append(acc.results, result.value),
                   successful |-> IF result.value.success
                                  THEN acc.successful + 1 ELSE acc.successful,
                   failed |-> acc.failed]
             ELSE ProcessResult(acc, result)

RECURSIVE ProcessResults(_, _)
ProcessResults(results, n) ==
    IF n = 0 THEN [results |-> <<>>, successful |-> 0, failed |-> 0]
    ELSE ProcessResult(ProcessResults(results, n - 1), results[n])

\* deploymentResults.filter(r => r.success)
RECURSIVE SuccessfulDeployments(_)
SuccessfulDeployments(rs) ==
    IF rs = <<>> THEN <<>>
    ELSE LET front == SuccessfulDeployments(SubSeq(rs, 1, Len(rs) - 1))
             last == rs[Len(rs)]
         IN  IF last.success THEN Append(front, last) ELSE front

\* Object.fromEntries(successfulDeployments.map(r => [r.chain, r.address])):
\* a later entry of the same key replaces an earlier one.
RECURSIVE FromEntries(_)
FromEntries(rs) ==
    IF rs = <<>> THEN <<>>
    ELSE LET front == FromEntries(SubSeq(rs, 1, Len(rs) - 1))
             last == rs[Len(rs)]
         IN  [k \in (DOMAIN front) \cup {last.chain} |->
                 IF k = last.chain THEN last.address ELSE front[k]]

\* A summary built from every result, failed ones included.
BuildSummary_FromAllResults(deploymentResults) ==
    [chains |-> [i \in 1..Len(deploymentResults) |-> deploymentResults[i].chain],
     addresses |-> FromEntries(deploymentResults)]

\* The summary (lines 331-337).
BuildSummary(deploymentResults) ==
    LET successfulDeployments == SuccessfulDeployments(deploymentResults)
    IN  [chains |-> [i \in 1..Len(successfulDeployments) |-> successfulDeployments[i].chain],
         addresses |-> FromEntries(successfulDeployments)]

\* What deployToChainsParallel and deployToChainsCREATE2Parallel return once
\* Promise.allSettled has resolved (lines 299-345 and 369-415).
Aggregate(chains, results) ==
    LET processed == ProcessResults(results, Len(results))
    IN  [total |-> Len(chains),
         successful |-> processed.successful,
         failed |-> processed.failed,
         results |-> processed.results,
         summary |-> BuildSummary(processed.results)]

\* ---------------------------------------------------------------- Chimera

\* The members of a sequence.
Range(s) == {s[i] : i \in DOMAIN s}

\* filterByChainGroup, lines 91-127.
TestnetChainIds == {11155111, 11155420, 84532, 421614, 59141, 534351, 80001, 97, 43113, 420}
MainnetChainIds == {1, 10, 8453, 42161, 59144, 534352, 137, 56, 43114}
L2ChainIds == {10, 8453, 42161, 59144, 534352, 11155420, 84532, 421614, 59141, 534351}

\* group.toLowerCase(), on the group names the model uses.
ToLowerCase(group) ==
    CASE group = "L2" -> "l2"
      [] group = "Testnet" -> "testnet"
      [] OTHER -> group

\* filterByChainGroup, lines 129-143.
FilterByChainGroup(chains, group) ==
    LET g == ToLowerCase(group)
        IsTestnet(c) == c.chainId \in TestnetChainIds
        IsMainnet(c) == c.chainId \in MainnetChainIds
        IsL2(c) == c.chainId \in L2ChainIds
        IsL1(c) == c.chainId \notin L2ChainIds
    IN  CASE g = "testnet" -> SelectSeq(chains, IsTestnet)
          [] g = "mainnet" -> SelectSeq(chains, IsMainnet)
          [] g \in {"l2", "layer2"} -> SelectSeq(chains, IsL2)
          [] g \in {"l1", "layer1"} -> SelectSeq(chains, IsL1)
          [] OTHER -> chains

\* getFilteredChains, lines 57-85: the chains to deploy to, or the throw of
\* line 79.
GetFilteredChains(configured, options) ==
    LET Named(c) == c.name \in Range(options.chains)
        NotExcluded(c) == c.name \notin Range(options.excludeChains)
        IsTo(c) == c.name = options.to
        byName == IF Len(options.chains) > 0 THEN SelectSeq(configured, Named) ELSE configured
        byExclusion == IF Len(options.excludeChains) > 0
                       THEN SelectSeq(byName, NotExcluded) ELSE byName
        byGroup == IF options.chainGroup # ""
                   THEN FilterByChainGroup(byExclusion, options.chainGroup)
                   ELSE byExclusion
        found == SelectSeq(byGroup, IsTo)
    IN  IF options.to # "" /\ options.to # "all"
        THEN IF found = <<>>
             THEN [error |-> <<"Chain \"", options.to, "\" not found in configuration">>,
                   chains |-> <<>>]
             ELSE [error |-> NO_ERROR, chains |-> <<found[1]>>]
        ELSE [error |-> NO_ERROR, chains |-> byGroup]

\* contractPath.split('/').pop()?.replace('.sol', '') || 'Unknown'
ContractNameOf(contractPath) ==
    CASE contractPath = GoodContract -> "Token"
      [] contractPath = BrokenContract -> "Broken"
      [] OTHER -> "Unknown"

\* ------------------------------------------------------- ManifestManager

\* generateId: the sha256 digest of `${chain}-${address}-${txHash}`.
GenerateId(chain, address, txHash) == <<"sha256", chain, address, txHash>>

\* An addDeployments that puts the new records in front of the old ones.
AddDeployments_Prepends(deployments, records) ==
    [i \in 1..Len(records) |->
        [id |-> GenerateId(records[i].chain, records[i].address, records[i].txHash),
         timestamp |-> records[i].timestamp,
         contractName |-> records[i].contractName,
         chain |-> records[i].chain,
         chainId |-> records[i].chainId,
         address |-> records[i].address,
         txHash |-> records[i].txHash,
         blockNumber |-> records[i].blockNumber,
         deployer |-> records[i].deployer,
         salt |-> records[i].salt]]
    \o deployments

\* addDeployments, lines 74-86: the manifest's deployments after the call.
AddDeployments(deployments, records) ==
    deployments \o
    [i \in 1..Len(records) |->
        [id |-> GenerateId(records[i].chain, records[i].address, records[i].txHash),
         timestamp |-> records[i].timestamp,
         contractName |-> records[i].contractName,
         chain |-> records[i].chain,
         chainId |-> records[i].chainId,
         address |-> records[i].address,
         txHash |-> records[i].txHash,
         blockNumber |-> records[i].blockNumber,
         deployer |-> records[i].deployer,
         salt |-> records[i].salt]]

\* saveDeploymentsToManifest, lines 154-158: the deployer address, or the
\* throw of new ethers.Wallet on a key that is no private key.
DeployerAddress(options, envKey) ==
    LET privateKey == EffectiveKey(options, envKey)
    IN  IF privateKey = NO_KEY THEN [threw |-> FALSE, address |-> <<"0xUnknown">>]
        ELSE IF WalletThrows(privateKey) THEN [threw |-> TRUE, address |-> <<>>]
        ELSE [threw |-> FALSE, address |-> WalletAddress(privateKey)]

\* Records made of every result, failed ones included.
ManifestRecords_FromAllResults(contractPath, result, options, envKey, stamps) ==
    [i \in 1..Len(result.results) |->
        [timestamp |-> IF i \in DOMAIN stamps THEN stamps[i] ELSE 0,
         contractName |-> ContractNameOf(contractPath),
         chain |-> result.results[i].chain,
         chainId |-> result.results[i].chainId,
         address |-> result.results[i].address,
         txHash |-> result.results[i].txHash,
         blockNumber |-> result.results[i].blockNumber,
         deployer |-> DeployerAddress(options, envKey).address,
         salt |-> result.results[i].salt]]

\* saveDeploymentsToManifest, lines 160-175: the records of the successful
\* results; stamps[i] is the clock reading taken for the i-th of them.
ManifestRecords(contractPath, result, options, envKey, stamps) ==
    LET successes == SuccessfulDeployments(result.results)
    IN  [i \in 1..Len(successes) |->
            [timestamp |-> stamps[i],
             contractName |-> ContractNameOf(contractPath),
             chain |-> successes[i].chain,
             chainId |-> successes[i].chainId,
             address |-> successes[i].address,
             txHash |-> successes[i].txHash,
             blockNumber |-> successes[i].blockNumber,
             deployer |-> DeployerAddress(options, envKey).address,
             salt |-> successes[i].salt]]

\* saveDeploymentsToManifest as a whole: whether it throws, and the manifest
\* it leaves.
SaveDeploymentsToManifest(deployments, contractPath, result, options, envKey, stamps) ==
    IF DeployerAddress(options, envKey).threw
    THEN [error |-> <<"invalid private key">>, deployments |-> deployments]
    ELSE LET records == ManifestRecords(contractPath, result, options, envKey, stamps)
         IN  [error |-> NO_ERROR,
              deployments |-> IF Len(records) > 0
                              THEN AddDeployments(deployments, records)
                              ELSE deployments]

\* addDeployment, lines 57-69.
AddDeployment(deployments, record) == AddDeployments(deployments, <<record>>)

\* getDeploymentsByChain, lines 99-102.
GetDeploymentsByChain(deployments, chainName) ==
    LET OnChain(d) == d.chain = chainName
    IN  SelectSeq(deployments, OnChain)

\* The clock's ticks in one minute: deployment.timestamp.slice(0, 16) keeps an
\* ISO timestamp up to its minute.
TicksPerMinute == 2
TimestampMinute(timestamp) == timestamp \div TicksPerMinute

\* A grouping key that leaves the contract name out.
SummaryKey_IgnoresContractName(deployment) ==
    <<"", "-", TimestampMinute(deployment.timestamp)>>

\* getOmnichainSummary, line 149: `${contractName}-${timestamp.slice(0, 16)}`.
SummaryKey(deployment) ==
    <<deployment.contractName, "-", TimestampMinute(deployment.timestamp)>>

\* getOmnichainSummary, lines 148-163: the loop over the deployments; the Map
\* keeps its groups in the order in which their keys were first set.
RECURSIVE GroupDeployments(_)
GroupDeployments(deployments) ==
    IF deployments = <<>> THEN <<>>
    ELSE LET front == GroupDeployments(SubSeq(deployments, 1, Len(deployments) - 1))
             deployment == deployments[Len(deployments)]
             key == SummaryKey(deployment)
             summary == IF \E i \in DOMAIN front : front[i].key = key
                        THEN front
                        ELSE Append(front, [key |-> key,
                                            timestamp |-> deployment.timestamp,
                                            contractName |-> deployment.contractName,
                                            chains |-> <<>>,
                                            addresses |-> <<>>])
         IN  [i \in DOMAIN summary |->
                 IF summary[i].key = key
                 THEN [summary[i] EXCEPT
                          !.chains = Append(@, deployment.chain),
                          !.addresses = [k \in (DOMAIN @) \cup {deployment.chain} |->
                                            IF k = deployment.chain
                                            THEN deployment.address ELSE @[k]]]
                 ELSE summary[i]]

\* Array.from(summary.values()), line 166.
SummaryValues(summary) ==
    [i \in DOMAIN summary |->
        [timestamp |-> summary[i].timestamp,
         contractName |-> summary[i].contractName,
         chains |-> summary[i].chains,
         addresses |-> summary[i].addresses]]

\* result.sort((a, b) => new Date(b.timestamp).getTime() - new Date(a.timestamp).getTime()),
\* line 167: by timestamp, latest first; Array.prototype.sort is stable.
RECURSIVE SortByTimestampDescending(_)
SortByTimestampDescending(result) ==
    IF result = <<>> THEN <<>>
    ELSE LET front == SortByTimestampDescending(SubSeq(result, 1, Len(result) - 1))
             x == result[Len(result)]
             k == Cardinality({i \in DOMAIN front : front[i].timestamp >= x.timestamp})
         IN  SubSeq(front, 1, k) \o <<x>> \o SubSeq(front, k + 1, Len(front))

\* result.slice(0, end): a negative end counts from the end of the array.
SliceFromStart(result, end) ==
    IF end >= 0
    THEN SubSeq(result, 1, IF end < Len(result) THEN end ELSE Len(result))
    ELSE SubSeq(result, 1, IF Len(result) + end > 0 THEN Len(result) + end ELSE 0)

\* getOmnichainSummary, lines 143-170.
GetOmnichainSummary(deployments, limit) ==
    SliceFromStart(SortByTimestampDescending(SummaryValues(GroupDeployments(deployments))),
                   limit)

\* An import loop that pushes every record of the file.
RECURSIVE ImportLoop_PushesAll(_, _, _)
ImportLoop_PushesAll(acc, imported, existingIds) ==
    IF imported = <<>> THEN acc
    ELSE ImportLoop_PushesAll(
             [deployments |-> Append(acc.deployments, Head(imported)),
              importedCount |-> acc.importedCount + 1],
             Tail(imported), existingIds)

\* importFromFile, lines 203-208: the loop over the imported deployments.
RECURSIVE ImportLoop(_, _, _)
ImportLoop(acc, imported, existingIds) ==
    IF imported = <<>> THEN acc
    ELSE ImportLoop(
             IF Head(imported).id \notin existingIds
             THEN [deployments |-> Append(acc.deployments, Head(imported)),
                   importedCount |-> acc.importedCount + 1]
             ELSE acc,
             Tail(imported), existingIds)

\* importFromFile, lines 196-211: the deployments written back and the
\* count returned. The ids already present are collected once, before the loop.
ImportFromFile(deployments, imported) ==
    LET existingIds == {deployments[i].id : i \in DOMAIN deployments}
    IN  ImportLoop([deployments |-> deployments, importedCount |-> 0],
                   imported, existingIds)

\* ------------------------------------------------------------ call inputs

\* Ticks of the wall clock that may pass while one call builds its records.
MaxDrift == 1

\* DeploymentOptions as a caller of the Deployer passes them.
DeployerOptions ==
    [to : {"all"},
     args : {<<42>>},
     privateKey : PrivateKeys,
     salt : {CustomSalt},
     useCreate2 : {FALSE},
     saveManifest : {TRUE},
     chains : {<<>>},
     excludeChains : {<<>>},
     chainGroup : {""}]

\* The target lists handed to the dispatcher: any list, names may repeat.
TargetPool == {EthereumSepolia, ScrollSepolia}
TargetLists == UNION {[1..n -> TargetPool] : n \in 1..MaxTargets}

\* OmnichainDeploymentOptions as the CLI's deploy command passes them
\* (cli/commands/deploy.ts:111-121: to = --network, never a chainGroup) ...
CliOptions ==
    [to : {"all", "testnet", "mainnet", "l2", "Scroll Sepolia", "Ghost"},
     args : {<<42>>},
     privateKey : {InvalidKey, ValidKey},
     salt : {NO_SALT},
     useCreate2 : BOOLEAN,
     saveManifest : BOOLEAN,
     chains : {<<>>, <<"Scroll Sepolia", "Ghost">>},
     excludeChains : {<<>>, <<"Ethereum Sepolia">>},
     chainGroup : {""}]

\* ... and as an SDK caller may pass them.
SdkOptions ==
    [to : {"all", ""},
     args : {<<42>>},
     privateKey : {NO_KEY},
     salt : {NO_SALT, CustomSalt},
     useCreate2 : BOOLEAN,
     saveManifest : {TRUE},
     chains : {<<>>},
     excludeChains : {<<>>},
     chainGroup : {"testnet", "L2", "mainnet", "l1", "everything"}]

\* The calls of Chimera.deploy: the options and process.env.PRIVATE_KEY.
ChimeraCalls ==
    [options : CliOptions, envKey : {NO_KEY}]
    \cup [options : SdkOptions, envKey : {NO_KEY, ValidKey}]

\* -------------------------------------------------------------------- state

VARIABLES
    config,     \* chains.yaml: the configured chains, in file order
    manifest,   \* deployments.json: the deployments, in file order
    clock,      \* the wall clock, in ticks
    call,       \* the call in progress: entry point and arguments
    phase,      \* "idle", "dispatched", "resolved" or "rejected"
    targets,    \* the chains the dispatcher was called with
    task,       \* per target: where its deployToChain call stands
    settled,    \* per target: the settlement of its promise
    sent,       \* per target: the transactions handed to the network
    overtaken,  \* whether some promise settled before that of an earlier target
    aggregate,  \* what the dispatcher returned
    outcome,    \* how the call ended: resolved, or rejected with an error
    files,      \* the manifest files outside the store, by path
    last,       \* the latest ManifestManager call: operation, path, return value, and
                \* the return value of the call before it if that was the same call;
                \* or the latest ChainManager call: operation, argument, outcome, error
    adding,     \* the addChain calls waiting for validateChainConnection
    appending   \* per caller of addDeployments: its process, where the call stands,
                \* its records and the manifest it read

vars == <<config, manifest, clock, call, phase, targets, task, settled, sent, overtaken,
          aggregate, outcome, files, last, adding, appending>>

deployVars == <<call, phase, targets, task, settled, sent, overtaken, aggregate, outcome>>
storeVars == <<files, last>>
chainVars == <<adding>>
appendVars == <<appending>>

\* Paths of manifest files on disk; a file that does not exist.
Paths == {"backup.json", "export.json"}
MISSING_FILE == [exists |-> FALSE, deployments |-> <<>>]
ManifestFile(deployments) == [exists |-> TRUE, deployments |-> deployments]
NoOperation == [op |-> "none", path |-> "", returned |-> 0, previousReturned |-> NULL]

\* The callers of addDeployments, and a caller that has not called yet.
Callers == {"first", "second"}
NotAppending(process) == [process |-> process, pc |-> "idle", records |-> <<>>, read |-> <<>>]

NoResult == FailureResult([name |-> "", chainId |-> 0], NO_ERROR)
NoAggregate == Aggregate(<<>>, <<>>)

PendingTask == [pc |-> "estimateGas", gasLimit |-> 0, gasPrice |-> 0, balance |-> 0, nonce |-> 0]
DoneTask == [pc |-> "done", gasLimit |-> 0, gasPrice |-> 0, balance |-> 0, nonce |-> 0]

Pending == [status |-> "pending", value |-> NoResult, reason |-> NO_ERROR]
Fulfilled(result) == [status |-> "fulfilled", value |-> result, reason |-> NO_ERROR]
Rejected(reason) == [status |-> "rejected", value |-> NoResult, reason |-> reason]

\* A catch block that rethrows.
Caught_Rethrows(chain, message) == Rejected(message)

\* The catch block of deployToChain (lines 161-171) and of deployToChainCREATE2
\* (lines 266-277): the promise is fulfilled with a failure result.
Caught(chain, message) == Fulfilled(FailureResult(chain, message))

NoCall ==
    [entry |-> "none", useCreate2 |-> FALSE, contractPath |-> GoodContract,
     options |-> CHOOSE o \in DeployerOptions : o.privateKey = NO_KEY,
     envKey |-> NO_KEY]

Init ==
    /\ config = DefaultConfig
    /\ manifest = <<>>
    /\ clock = 0
    /\ call = NoCall
    /\ phase = "idle"
    /\ targets = <<>>
    /\ task = <<>>
    /\ settled = <<>>
    /\ sent = <<>>
    /\ overtaken = FALSE
    /\ aggregate = NoAggregate
    /\ outcome = [kind |-> "none", error |-> NO_ERROR]
    /\ files = [path \in Paths |-> MISSING_FILE]
    /\ last = NoOperation
    /\ adding = {}
    /\ appending = [c \in Callers |-> NotAppending(1)]

\* A dispatch whose calls construct the artifact and the signer outside their
\* try block: the error rejects the promise instead of being caught.
StartTasks_ThrowsOutsideTry(useCreate2, contractPath, chains, options, envKey) ==
    LET error == StartError(useCreate2, contractPath, options, envKey)
        n == Len(chains)
    IN  /\ targets' = chains
        /\ phase' = "dispatched"
        /\ sent' = [i \in 1..n |-> <<>>]
        /\ IF error = NO_ERROR
           THEN /\ task' = [i \in 1..n |-> PendingTask]
                /\ settled' = [i \in 1..n |-> Pending]
           ELSE /\ task' = [i \in 1..n |-> DoneTask]
                /\ settled' = [i \in 1..n |-> Rejected(error)]
        /\ overtaken' = FALSE

\* chains.map(async (chain) => this.deployToChain...(contractPath, chain, options)),
\* lines 291-294 and 361-364: every call runs to its first await, in target order.
StartTasks(useCreate2, contractPath, chains, options, envKey) ==
    LET error == StartError(useCreate2, contractPath, options, envKey)
        n == Len(chains)
    IN  /\ targets' = chains
        /\ phase' = "dispatched"
        /\ sent' = [i \in 1..n |-> <<>>]
        /\ IF error = NO_ERROR
           THEN /\ task' = [i \in 1..n |-> PendingTask]
                /\ settled' = [i \in 1..n |-> Pending]
           ELSE /\ task' = [i \in 1..n |-> DoneTask]
                /\ settled' = [i \in 1..n |-> Caught(chains[i], error)]
        /\ overtaken' = FALSE

\* Deployer.deployToChainsParallel / deployToChainsCREATE2Parallel, called directly.
DispatcherCall ==
    /\ phase = "idle"
    /\ \E useCreate2 \in BOOLEAN, contractPath \in ContractPaths,
          chains \in TargetLists, options \in DeployerOptions :
          /\ call' = [entry |-> "dispatcher", useCreate2 |-> useCreate2,
                      contractPath |-> contractPath, options |-> options,
                      envKey |-> NO_KEY]
          /\ StartTasks(useCreate2, contractPath, chains, options, NO_KEY)
    /\ UNCHANGED <<config, manifest, clock, aggregate, outcome, storeVars, chainVars, appendVars>>

\* Chimera.deploy, lines 28-44: select the chains, then dispatch.
ChimeraDeploy ==
    /\ phase = "idle"
    /\ \E contractPath \in ContractPaths, c \in ChimeraCalls :
          LET options == c.options
              envKey == c.envKey
              selected == GetFilteredChains(config, options)
          IN  /\ call' = [entry |-> "chimera", useCreate2 |-> options.useCreate2,
                          contractPath |-> contractPath, options |-> options,
                          envKey |-> envKey]
              /\ IF selected.error # NO_ERROR
                 THEN /\ phase' = "rejected"
                      /\ outcome' = [kind |-> "rejected", error |-> selected.error]
                      /\ UNCHANGED <<targets, task, settled, sent, overtaken>>
                 ELSE IF Len(selected.chains) = 0
                 THEN /\ phase' = "rejected"
                      /\ outcome' = [kind |-> "rejected",
                                     error |-> <<"No chains configured for deployment">>]
                      /\ UNCHANGED <<targets, task, settled, sent, overtaken>>
                 ELSE /\ StartTasks(options.useCreate2, contractPath, selected.chains,
                                    options, envKey)
                      /\ UNCHANGED outcome
    /\ UNCHANGED <<config, manifest, clock, aggregate, storeVars, chainVars, appendVars>>

\* A settlement that, when it is a failure, also ends the calls of the
\* targets still pending.
Settle_CancelsSiblings(i, settlement) ==
    LET cancels(j) == /\ j # i
                      /\ settled[j].status = "pending"
                      /\ ~settlement.value.success
    IN  /\ settled' = [j \in DOMAIN settled |->
                          IF j = i THEN settlement
                          ELSE IF cancels(j) THEN Fulfilled(FailureResult(targets[j], <<"cancelled">>))
                          ELSE settled[j]]
        /\ task' = [j \in DOMAIN task |->
                       IF j = i \/ cancels(j) THEN DoneTask ELSE task[j]]
        /\ overtaken' = (overtaken \/ \E j \in 1..(i - 1) : settled[j].status = "pending")

\* The promise of target i settles: deployToChain and deployToChainCREATE2
\* return from their try block or from their catch block.
Settle(i, settlement) ==
    /\ settled' = [settled EXCEPT ![i] = settlement]
    /\ task' = [task EXCEPT ![i] = DoneTask]
    /\ overtaken' = (overtaken \/ \E j \in 1..(i - 1) : settled[j].status = "pending")

\* provider.estimateGas answers (line 432) or fails; in CREATE2 mode line 214.
EstimateGasReply(i) ==
    /\ phase = "dispatched"
    /\ task[i].pc = "estimateGas"
    /\ \E reply \in GasEstimates \cup {NULL} :
          task' = [task EXCEPT ![i] =
                     IF call.useCreate2
                     THEN [@ EXCEPT !.pc = "getFeeData",
                                    !.gasLimit = Create2GasLimit(
                                        IF reply = NULL THEN CREATE2_FALLBACK_ESTIMATE
                                        ELSE reply)]
                     ELSE IF reply = NULL
                     THEN [@ EXCEPT !.pc = "getBalance",
                                    !.gasLimit = FALLBACK_GAS_LIMIT,
                                    !.gasPrice = DEFAULT_GAS_PRICE]
                     ELSE [@ EXCEPT !.pc = "getFeeData",
                                    !.gasLimit = DirectGasLimit(reply)]]
    /\ UNCHANGED <<config, manifest, clock, call, phase, targets, settled, sent, overtaken, aggregate, outcome, storeVars, chainVars, appendVars>>

\* provider.getFeeData answers or fails (line 439; in CREATE2 mode line 221).
FeeDataReply(i) ==
    /\ phase = "dispatched"
    /\ task[i].pc = "getFeeData"
    /\ \E reply \in FeeDataReplies :
          IF call.useCreate2
          THEN IF reply.error
               THEN /\ Settle(i, Caught(targets[i], <<"could not get fee data">>))
               ELSE /\ task' = [task EXCEPT ![i] =
                                  [@ EXCEPT !.pc = "getBalance",
                                            !.gasPrice = Create2GasPrice(reply)]]
                    /\ UNCHANGED <<settled, overtaken>>
          ELSE /\ task' = [task EXCEPT ![i] =
                             IF reply.error \/ ResolveGasPrice(reply).threw
                             THEN [@ EXCEPT !.pc = "getBalance",
                                            !.gasLimit = FALLBACK_GAS_LIMIT,
                                            !.gasPrice = DEFAULT_GAS_PRICE]
                             ELSE [@ EXCEPT !.pc = "getBalance",
                                            !.gasPrice = ResolveGasPrice(reply).gasPrice]]
               /\ UNCHANGED <<settled, overtaken>>
    /\ UNCHANGED <<config, manifest, clock, call, phase, targets, sent, aggregate, outcome, storeVars, chainVars, appendVars>>

\* provider.getBalance answers or fails, then the balance check
\* (lines 124-132 and 225-233).
GetBalanceReply(i) ==
    /\ phase = "dispatched"
    /\ task[i].pc = "getBalance"
    /\ \E reply \in Balances \cup {NULL} :
          IF reply = NULL
          THEN Settle(i, Caught(targets[i], <<"could not get balance">>))
          ELSE IF InsufficientFunds(reply, task[i].gasLimit, task[i].gasPrice)
          THEN Settle(i, Caught(targets[i],
                  InsufficientFundsMessage(targets[i], task[i].gasLimit * task[i].gasPrice,
                                           reply)))
          ELSE /\ task' = [task EXCEPT ![i] =
                             [@ EXCEPT !.pc = "sendTransaction", !.balance = reply]]
               /\ UNCHANGED <<settled, overtaken>>
    /\ UNCHANGED <<config, manifest, clock, call, phase, targets, sent, aggregate, outcome, storeVars, chainVars, appendVars>>

\* The transaction of target i (lines 135-138 and 238-243).
DeploymentTx(i) ==
    [from |-> WalletAddress(EffectiveKey(call.options, call.envKey)),
     to |-> IF call.useCreate2 THEN CREATE2_FACTORY_ADDRESS ELSE <<>>,
     data |-> IF call.useCreate2 THEN Create2Calldata(call.contractPath, call.options)
              ELSE DirectCalldata(call.contractPath, call.options),
     gasLimit |-> task[i].gasLimit,
     gasPrice |-> task[i].gasPrice]

\* factory.deploy / wallet.sendTransaction hands the transaction to the
\* network, which accepts it under some nonce or refuses it.
SendReply(i) ==
    /\ phase = "dispatched"
    /\ task[i].pc = "sendTransaction"
    /\ sent' = [sent EXCEPT ![i] = Append(@, DeploymentTx(i))]
    /\ \E accepted \in BOOLEAN, nonce \in Nonces :
          IF accepted
          THEN /\ task' = [task EXCEPT ![i] =
                             [@ EXCEPT !.pc = "waitForTransaction", !.nonce = nonce]]
               /\ UNCHANGED <<settled, overtaken>>
          ELSE Settle(i, Caught(targets[i], <<"could not send transaction">>))
    /\ UNCHANGED <<config, manifest, clock, call, phase, targets, aggregate, outcome, storeVars, chainVars, appendVars>>

\* A settlement that takes any receipt for a success, whatever its status.
ReceiptSettlement_IgnoresStatus(i, reply) ==
    IF reply.kind = "timeout"
    THEN Caught(targets[i], <<"timeout">>)
    ELSE IF reply.kind = "null"
    THEN Caught(targets[i],
                <<IF call.useCreate2 THEN "CREATE2 deployment failed on "
                  ELSE "Transaction failed on ", targets[i].name>>)
    ELSE Fulfilled(SuccessResult(
             targets[i],
             IF call.useCreate2
             THEN CalculateCREATE2Address(EffectiveSalt(call.options),
                                          InitCode(call.contractPath, call.options),
                                          CREATE2_FACTORY_ADDRESS)
             ELSE CreateAddress(WalletAddress(EffectiveKey(call.options, call.envKey)),
                                task[i].nonce),
             TxHashOf(targets[i].chainId, task[i].nonce),
             reply.blockNumber,
             IF call.useCreate2 THEN EffectiveSalt(call.options)
             ELSE call.options.salt))

\* What the call of target i returns once provider.waitForTransaction(hash, 1,
\* 120000) has answered (lines 145-160 and 247-265) with a timeout, with no
\* receipt, or with a receipt and its status.
ReceiptSettlement(i, reply) ==
    IF reply.kind = "timeout"
    THEN Caught(targets[i], <<"timeout">>)
    ELSE IF reply.kind = "null" \/ reply.status = 0
    THEN Caught(targets[i],
                <<IF call.useCreate2 THEN "CREATE2 deployment failed on "
                  ELSE "Transaction failed on ", targets[i].name>>)
    ELSE Fulfilled(SuccessResult(
             targets[i],
             IF call.useCreate2
             THEN CalculateCREATE2Address(EffectiveSalt(call.options),
                                          InitCode(call.contractPath, call.options),
                                          CREATE2_FACTORY_ADDRESS)
             ELSE CreateAddress(WalletAddress(EffectiveKey(call.options, call.envKey)),
                                task[i].nonce),
             TxHashOf(targets[i].chainId, task[i].nonce),
             reply.blockNumber,
             IF call.useCreate2 THEN EffectiveSalt(call.options)
             ELSE call.options.salt))

\* provider.waitForTransaction answers, and the call of target i returns.
ReceiptReply(i) ==
    /\ phase = "dispatched"
    /\ task[i].pc = "waitForTransaction"
    /\ \E reply \in ReceiptReplies : Settle(i, ReceiptSettlement(i, reply))
    /\ UNCHANGED <<config, manifest, clock, call, phase, targets, sent, aggregate, outcome, storeVars, chainVars, appendVars>>

\* Clock readings for n records taken one after the other from time t on.
Stamps(t, n) ==
    {s \in [1..n -> t..(t + MaxDrift)] : \A i \in 1..(n - 1) : s[i] <= s[i + 1]}

\* Promise.allSettled resolves: the dispatcher builds its aggregate result
\* (lines 297-345), and Chimera.deploy saves the manifest and returns
\* (chimera.ts:46-51).
Collect ==
    /\ phase = "dispatched"
    /\ \A i \in DOMAIN settled : settled[i].status # "pending"
    /\ LET result == Aggregate(targets, settled)
       IN  /\ aggregate' = result
           /\ IF call.entry = "chimera" /\ call.options.saveManifest
              THEN \E stamps \in Stamps(clock, Len(SuccessfulDeployments(result.results))) :
                      LET saved == SaveDeploymentsToManifest(
                                       manifest, call.contractPath, result,
                                       call.options, call.envKey, stamps)
                      IN  /\ manifest' = saved.deployments
                          /\ clock' = IF saved.error = NO_ERROR /\ Len(stamps) > 0
                                      THEN stamps[Len(stamps)] ELSE clock
                          /\ IF saved.error # NO_ERROR
                             THEN /\ phase' = "rejected"
                                  /\ outcome' = [kind |-> "rejected", error |-> saved.error]
                             ELSE /\ phase' = "resolved"
                                  /\ outcome' = [kind |-> "resolved", error |-> NO_ERROR]
              ELSE /\ phase' = "resolved"
                   /\ outcome' = [kind |-> "resolved", error |-> NO_ERROR]
                   /\ UNCHANGED <<manifest, clock>>
    /\ UNCHANGED <<config, call, targets, task, settled, sent, overtaken, storeVars, chainVars, appendVars>>

Next ==
    \/ DispatcherCall
    \/ ChimeraDeploy
    \/ \E i \in DOMAIN task : EstimateGasReply(i)
    \/ \E i \in DOMAIN task : FeeDataReply(i)
    \/ \E i \in DOMAIN task : GetBalanceReply(i)
    \/ \E i \in DOMAIN task : SendReply(i)
    \/ \E i \in DOMAIN task : ReceiptReply(i)
    \/ Collect

Spec == Init /\ [][Next]_vars

\* ------------------------------------------------------ the manifest store

\* Longest manifest the store operations are explored on.
MaxRecords == 3

\* Records as callers of addDeployment and addDeployments pass them.
TokenOnSepolia ==
    [timestamp |-> 0, contractName |-> "Token", chain |-> "Ethereum Sepolia",
     chainId |-> 11155111, address |-> <<"0xA1">>, txHash |-> <<"0xT1">>,
     blockNumber |-> 7, deployer |-> WalletAddress(ValidKey), salt |-> NO_SALT]
TokenOnScroll ==
    [timestamp |-> 0, contractName |-> "Token", chain |-> "Scroll Sepolia",
     chainId |-> 534351, address |-> <<"0xA1">>, txHash |-> <<"0xT2">>,
     blockNumber |-> 7, deployer |-> WalletAddress(ValidKey), salt |-> NO_SALT]
VaultOnSepolia ==
    [timestamp |-> 1, contractName |-> "Vault", chain |-> "Ethereum Sepolia",
     chainId |-> 11155111, address |-> <<"0xA2">>, txHash |-> <<"0xT3">>,
     blockNumber |-> 7, deployer |-> WalletAddress(ValidKey), salt |-> NO_SALT]
RecordInputs == {TokenOnSepolia, TokenOnScroll, VaultOnSepolia}

\* The deployments of a manifest file written by some other store.
StoredRecords == {AddDeployment(<<>>, r)[1] : r \in RecordInputs}
BackupContents == UNION {[1..n -> StoredRecords] : n \in 0..2}

\* The state before the first ManifestManager call: deployments.json does not
\* exist yet, backup.json holds the deployments of some earlier store.
InitStore ==
    /\ config = DefaultConfig
    /\ manifest = <<>>
    /\ clock = 0
    /\ call = NoCall
    /\ phase = "idle"
    /\ targets = <<>>
    /\ task = <<>>
    /\ settled = <<>>
    /\ sent = <<>>
    /\ overtaken = FALSE
    /\ aggregate = NoAggregate
    /\ outcome = [kind |-> "none", error |-> NO_ERROR]
    /\ \E content \in BackupContents :
          files = [path \in Paths |-> IF path = "backup.json" THEN ManifestFile(content)
                                       ELSE MISSING_FILE]
    /\ last = NoOperation
    /\ adding = {}
    /\ appending = [c \in Callers |-> NotAppending(1)]

\* manifestManager.addDeployment(record)
AddDeploymentCall ==
    /\ Len(manifest) < MaxRecords
    /\ \E record \in RecordInputs :
          /\ manifest' = AddDeployment(manifest, record)
          /\ last' = [op |-> "addDeployment", path |-> "", returned |-> 1,
                      previousReturned |-> NULL]
    /\ UNCHANGED <<config, clock, deployVars, files, chainVars, appendVars>>

\* manifestManager.addDeployments(records)
AddDeploymentsCall ==
    /\ \E records \in [1..2 -> RecordInputs] :
          /\ Len(manifest) + Len(records) <= MaxRecords
          /\ manifest' = AddDeployments(manifest, records)
          /\ last' = [op |-> "addDeployments", path |-> "",
                      returned |-> Len(records), previousReturned |-> NULL]
    /\ UNCHANGED <<config, clock, deployVars, files, chainVars, appendVars>>

\* manifestManager.clearDeployments(), lines 175-177
ClearDeploymentsCall ==
    /\ manifest' = <<>>
    /\ last' = [op |-> "clearDeployments", path |-> "", returned |-> 0,
                previousReturned |-> NULL]
    /\ UNCHANGED <<config, clock, deployVars, files, chainVars, appendVars>>

\* manifestManager.exportToFile(filePath), lines 182-185
ExportToFileCall ==
    /\ files' = [files EXCEPT !["export.json"] = ManifestFile(manifest)]
    /\ last' = [op |-> "exportToFile", path |-> "export.json", returned |-> 0,
                previousReturned |-> NULL]
    /\ UNCHANGED <<config, manifest, clock, deployVars, chainVars, appendVars>>

\* manifestManager.importFromFile(filePath), lines 190-212: throws when the
\* file does not exist (returned = NULL), else merges and returns the count.
ImportFromFileCall ==
    /\ \E path \in Paths :
          LET before == IF last.op = "importFromFile" /\ last.path = path
                        THEN last.returned ELSE NULL
          IN  IF ~files[path].exists
              THEN /\ last' = [op |-> "importFromFile", path |-> path, returned |-> NULL,
                               previousReturned |-> before]
                   /\ UNCHANGED manifest
              ELSE LET merged == ImportFromFile(manifest, files[path].deployments)
                   IN  /\ Len(merged.deployments) <= MaxRecords
                       /\ manifest' = merged.deployments
                       /\ last' = [op |-> "importFromFile", path |-> path,
                                   returned |-> merged.importedCount,
                                   previousReturned |-> before]
    /\ UNCHANGED <<config, clock, deployVars, files, chainVars, appendVars>>

\* manifestManager.getDeploymentsByChain(chainName), lines 99-102: a query;
\* returned is the number of deployments it answers with.
GetDeploymentsByChainCall ==
    /\ \E chainName \in {EthereumSepolia.name, ScrollSepolia.name} :
          last' = [op |-> "getDeploymentsByChain", path |-> chainName,
                   returned |-> Len(GetDeploymentsByChain(manifest, chainName)),
                   previousReturned |-> NULL]
    /\ UNCHANGED <<config, manifest, clock, deployVars, files, chainVars, appendVars>>

NextStore ==
    \/ AddDeploymentCall
    \/ AddDeploymentsCall
    \/ ClearDeploymentsCall
    \/ ExportToFileCall
    \/ ImportFromFileCall
    \/ GetDeploymentsByChainCall

SpecStore == InitStore /\ [][NextStore]_vars

\* ------------------------------------------------------ the chain manager

\* Most addChain calls that may wait for validateChainConnection at once.
MaxAdding == 2

\* Chains as callers of addChain pass them: a new chain, a chain with the
\* name of a default chain, one with the chainId of a default chain, and the
\* default chains themselves.
BaseSepolia ==
    [name |-> "Base Sepolia", rpc |-> "https://sepolia.base.org", chainId |-> 84532]
ScrollNamesake ==
    [name |-> "Scroll Sepolia", rpc |-> "https://rpc.scroll.io", chainId |-> 534352]
SepoliaMirror ==
    [name |-> "Sepolia Mirror", rpc |-> "https://mirror.sepolia.org", chainId |-> 11155111]
ChainInputs == {BaseSepolia, ScrollNamesake, SepoliaMirror, EthereumSepolia, ScrollSepolia}

\* Names as callers of removeChain pass them.
NameInputs == {c.name : c \in ChainInputs} \cup {"Ghost"}

\* What provider.getNetwork may answer to validateChainConnection.
NetworkReplies == {"match", "mismatch", "unreachable"}

\* A lookup that compares names only.
ExistingChain_ByNameOnly(chains, chain) ==
    {i \in DOMAIN chains : chains[i].name = chain.name}

\* config.chains.find(c => c.name === chain.name || c.chainId === chain.chainId)
ExistingChain(chains, chain) ==
    {i \in DOMAIN chains : chains[i].name = chain.name \/ chains[i].chainId = chain.chainId}

AlreadyExists(chain) ==
    <<"Chain with name \"", chain.name, "\" or chainId ", chain.chainId, " already exists">>

\* validateChainConnection, lines 66-81: the error it throws, if any.
ValidateChainConnection(chain, reply) ==
    CASE reply = "match" -> NO_ERROR
      [] reply = "mismatch" ->
            <<"Could not connect to RPC endpoint: ", "Chain ID mismatch: Expected ", chain.chainId>>
      [] OTHER -> <<"Could not connect to RPC endpoint: ", "network error">>

\* config.chains.findIndex(c => c.name === name): 0 stands for -1.
FindIndex(chains, name) ==
    IF \E i \in DOMAIN chains : chains[i].name = name
    THEN CHOOSE i \in DOMAIN chains :
            /\ chains[i].name = name
            /\ \A j \in 1..(i - 1) : chains[j].name # name
    ELSE 0

\* A splice without a delete count: everything from index on is removed.
Splice_RemovesToEnd(chains, index) == SubSeq(chains, 1, index - 1)

\* config.chains.splice(index, 1)
Splice(chains, index) == SubSeq(chains, 1, index - 1) \o SubSeq(chains, index + 1, Len(chains))

NotFound(name) == <<"Chain \"", name, "\" not found">>

\* The record of a ChainManager call: "pending" while it waits, then how it
\* settled.
ChainCall(op, argument, settlement, error) ==
    [op |-> op, argument |-> argument, outcome |-> settlement, error |-> error]

\* The state after the ChainManager constructor: chains.yaml holds the
\* default configuration.
InitChains ==
    /\ config = DefaultConfig
    /\ manifest = <<>>
    /\ clock = 0
    /\ call = NoCall
    /\ phase = "idle"
    /\ targets = <<>>
    /\ task = <<>>
    /\ settled = <<>>
    /\ sent = <<>>
    /\ overtaken = FALSE
    /\ aggregate = NoAggregate
    /\ outcome = [kind |-> "none", error |-> NO_ERROR]
    /\ files = [path \in Paths |-> MISSING_FILE]
    /\ last = NoOperation
    /\ adding = {}
    /\ appending = [c \in Callers |-> NotAppending(1)]

\* chainManager.addChain(chain), lines 84-95: read the configuration, throw
\* when the chain exists, else wait for validateChainConnection holding the
\* configuration that was read.
AddChainCall ==
    /\ \E chain \in ChainInputs :
          IF ExistingChain(config, chain) # {}
          THEN /\ last' = ChainCall("addChain", chain, "rejected", AlreadyExists(chain))
               /\ UNCHANGED adding
          ELSE /\ Cardinality(adding) < MaxAdding
               /\ adding' = adding \cup {[chain |-> chain, chains |-> config]}
               /\ last' = ChainCall("addChain", chain, "pending", NO_ERROR)
    /\ UNCHANGED <<config, manifest, clock, deployVars, files, appendVars>>

\* validateChainConnection settles (lines 95-98): addChain throws its error,
\* or pushes the chain to the configuration it read and writes that.
AddChainSettles ==
    /\ \E a \in adding, reply \in NetworkReplies :
          LET error == ValidateChainConnection(a.chain, reply)
          IN  /\ adding' = adding \ {a}
              /\ IF error # NO_ERROR
                 THEN /\ last' = ChainCall("addChain", a.chain, "rejected", error)
                      /\ UNCHANGED config
                 ELSE /\ last' = ChainCall("addChain", a.chain, "resolved", NO_ERROR)
                      /\ config' = Append(a.chains, a.chain)
    /\ UNCHANGED <<manifest, clock, deployVars, files, appendVars>>

\* chainManager.removeChain(name), lines 101-112.
RemoveChainCall ==
    /\ \E name \in NameInputs :
          LET index == FindIndex(config, name)
          IN  IF index = 0
              THEN /\ last' = ChainCall("removeChain", name, "rejected", NotFound(name))
                   /\ UNCHANGED config
              ELSE /\ last' = ChainCall("removeChain", name, "resolved", NO_ERROR)
                   /\ config' = Splice(config, index)
    /\ UNCHANGED <<manifest, clock, deployVars, files, adding, appendVars>>

NextChains ==
    \/ AddChainCall
    \/ AddChainSettles
    \/ RemoveChainCall

SpecChains == InitChains /\ [][NextChains]_vars

\* ------------------------------------------- addDeployments calls that race

\* The operating-system processes that hold a ManifestManager on the same
\* deployments.json (say, two runs of the CLI's deploy command).
Processes == {1, 2}

\* The state before any addDeployments call: each caller lives in some
\* process, deployments.json holds the deployments of earlier calls.
InitAppend ==
    /\ config = DefaultConfig
    /\ \E content \in BackupContents : manifest = content
    /\ clock = 0
    /\ call = NoCall
    /\ phase = "idle"
    /\ targets = <<>>
    /\ task = <<>>
    /\ settled = <<>>
    /\ sent = <<>>
    /\ overtaken = FALSE
    /\ aggregate = NoAggregate
    /\ outcome = [kind |-> "none", error |-> NO_ERROR]
    /\ files = [path \in Paths |-> MISSING_FILE]
    /\ last = NoOperation
    /\ adding = {}
    /\ \E process \in [Callers -> Processes] :
          appending = [c \in Callers |-> NotAppending(process[c])]

\* addDeployments, line 75: readManifest (lines 40-47) reads deployments.json
\* into the memory of the caller's process. Code of one process runs to
\* completion: no call begins while a call of the same process stands between
\* its readFileSync and its writeFileSync. Nothing orders the file accesses of
\* two processes: no lock is taken.
AddDeploymentsReads(c) ==
    /\ appending[c].pc = "idle"
    /\ \A other \in Callers \ {c} :
          appending[other].process = appending[c].process => appending[other].pc # "read"
    /\ \E records \in UNION {[1..n -> RecordInputs] : n \in 1..2} :
          appending' = [appending EXCEPT ![c] =
                           [@ EXCEPT !.pc = "read", !.records = records, !.read = manifest]]
    /\ UNCHANGED <<config, manifest, clock, deployVars, storeVars, chainVars>>

\* addDeployments, lines 77-85: the new records are pushed to the deployments
\* that were read, and writeManifest (lines 49-52) replaces the file's content.
AddDeploymentsWrites(c) ==
    /\ appending[c].pc = "read"
    /\ manifest' = AddDeployments(appending[c].read, appending[c].records)
    /\ appending' = [appending EXCEPT ![c] = [@ EXCEPT !.pc = "done"]]
    /\ UNCHANGED <<config, clock, deployVars, storeVars, chainVars>>

NextAppend ==
    \/ \E c \in Callers : AddDeploymentsReads(c)
    \/ \E c \in Callers : AddDeploymentsWrites(c)

SpecAppend == InitAppend /\ [][NextAppend]_vars

\* ------------------------------------------------- sessions of the manifest

\* Latest reading of the clock at which a call begins.
MaxClock == 2

\* The limits getOmnichainSummary is called with: the default of 10, and what
\* `deployments summary --limit <number>` passes on (verify.ts:421-426).
SummaryLimits == {0 - 1, 0, 1, 10}

\* Chimera.deploy calls of the CLI onto all chains, or onto those --chains and
\* --exclude leave, that save to the manifest under a valid key.
RunCalls ==
    {c \in ChimeraCalls : /\ c.options \in CliOptions
                          /\ c.options.to = "all"
                          /\ c.options.saveManifest
                          /\ ~c.options.useCreate2
                          /\ EffectiveKey(c.options, c.envKey) = ValidKey}

\* What the dispatcher returns to Chimera.deploy when the targets named by
\* succeeded are deployed to and the other targets fail.
RunResult(c, chains, succeeded) ==
    LET nonce == CHOOSE n \in Nonces : TRUE
        blockNumber == CHOOSE b \in BlockNumbers : TRUE
        from == WalletAddress(EffectiveKey(c.options, c.envKey))
    IN  Aggregate(chains,
                  [i \in DOMAIN chains |->
                      IF succeeded[i]
                      THEN Fulfilled(SuccessResult(chains[i], CreateAddress(from, nonce),
                                                   TxHashOf(chains[i].chainId, nonce),
                                                   blockNumber, c.options.salt))
                      ELSE Caught(chains[i], <<"timeout">>)])

\* Records of other contracts, as a caller of addDeployment passes them.
OtherContractRecords == {r \in RecordInputs : r.contractName # ContractNameOf(GoodContract)}

InitSessions ==
    /\ config = DefaultConfig
    /\ manifest = <<>>
    /\ clock = 0
    /\ call = NoCall
    /\ phase = "idle"
    /\ targets = <<>>
    /\ task = <<>>
    /\ settled = <<>>
    /\ sent = <<>>
    /\ overtaken = FALSE
    /\ aggregate = NoAggregate
    /\ outcome = [kind |-> "none", error |-> NO_ERROR]
    /\ files = [path \in Paths |-> MISSING_FILE]
    /\ last = [op |-> "none", limit |-> 0, returned |-> 0]
    /\ adding = {}
    /\ appending = [c \in Callers |-> NotAppending(1)]

\* Time passes between two calls.
Tick ==
    /\ clock < MaxClock
    /\ clock' = clock + 1
    /\ UNCHANGED <<config, manifest, deployVars, storeVars, chainVars, appendVars>>

\* One run of Chimera.deploy (chimera.ts:28-52) from its call to its return:
\* the chains are selected, the dispatcher returns its result, and
\* saveDeploymentsToManifest stamps one record per success, reading the clock
\* for each.
DeployRun ==
    /\ \E c \in RunCalls :
          LET selected == GetFilteredChains(config, c.options)
          IN  /\ selected.error = NO_ERROR
              /\ Len(selected.chains) > 0
              /\ \E succeeded \in [DOMAIN selected.chains -> BOOLEAN] :
                    LET result == RunResult(c, selected.chains, succeeded)
                    IN  \E stamps \in Stamps(clock, Len(SuccessfulDeployments(result.results))) :
                           LET saved == SaveDeploymentsToManifest(
                                            manifest, GoodContract, result,
                                            c.options, c.envKey, stamps)
                           IN  /\ Len(saved.deployments) <= MaxRecords
                               /\ manifest' = saved.deployments
                               /\ clock' = IF Len(stamps) > 0 THEN stamps[Len(stamps)]
                                           ELSE clock
                               /\ last' = [op |-> "deploy", limit |-> 0,
                                           returned |-> Len(stamps)]
    /\ UNCHANGED <<config, deployVars, files, chainVars, appendVars>>

\* manifestManager.addDeployment(record) with a record stamped by its caller
\* at the time of the call.
AddDeploymentNow ==
    /\ Len(manifest) < MaxRecords
    /\ \E record \in OtherContractRecords :
          manifest' = AddDeployment(manifest, [record EXCEPT !.timestamp = clock])
    /\ last' = [op |-> "addDeployment", limit |-> 0, returned |-> 1]
    /\ UNCHANGED <<config, clock, deployVars, files, chainVars, appendVars>>

\* manifestManager.getOmnichainSummary(limit), lines 143-170: a query;
\* returned is the array of sessions it answers with.
GetOmnichainSummaryCall ==
    /\ \E limit \in SummaryLimits :
          last' = [op |-> "getOmnichainSummary", limit |-> limit,
                   returned |-> GetOmnichainSummary(manifest, limit)]
    /\ UNCHANGED <<config, manifest, clock, deployVars, files, chainVars, appendVars>>

NextSessions ==
    \/ Tick
    \/ DeployRun
    \/ AddDeploymentNow
    \/ GetOmnichainSummaryCall

SpecSessions == InitSessions /\ [][NextSessions]_vars

\* ------------------------------------------------------------------ claims

\* The dispatcher has returned its aggregate result.
DispatcherReturned == phase \in {"resolved", "rejected"} /\ targets # <<>>

Failed(i) == settled[i].status = "fulfilled" /\ ~settled[i].value.success
Succeeded(i) == settled[i].status = "fulfilled" /\ settled[i].value.success

\* C1: the results returned by the parallel dispatcher have one entry per
\* target, and entry i is the result of target i and carries its name,
\* whatever the order of completion and whichever targets fail.
C1_ResultsMirrorTargets ==
    DispatcherReturned =>
        /\ Len(aggregate.results) = Len(targets)
        /\ \A i \in DOMAIN targets :
              /\ aggregate.results[i].chain = targets[i].name
              /\ aggregate.results[i] = settled[i].value

\* C1 witness: two different targets, the second settled before the first,
\* one failed and one succeeded, and the dispatcher has returned.
C1_Witness ==
    /\ DispatcherReturned
    /\ overtaken
    /\ Len(targets) >= 2
    /\ targets[1].name # targets[2].name
    /\ \E i, j \in DOMAIN targets : Failed(i) /\ Succeeded(j)

\* C2: in the aggregate, total is the number of targets, successful and
\* failed count the results with success = true and success = false, and
\* successful + failed = total.
C2_CountsAddUp ==
    DispatcherReturned =>
        LET rs == aggregate.results
        IN  /\ aggregate.total = Len(targets)
            /\ aggregate.successful = Cardinality({i \in DOMAIN rs : rs[i].success})
            /\ aggregate.failed = Cardinality({i \in DOMAIN rs : ~rs[i].success})
            /\ aggregate.successful + aggregate.failed = aggregate.total

IsInsufficientFunds(message) == Len(message) = 7 /\ message[1] = "Insufficient funds on "

\* C2 witness: a batch in which one target had insufficient funds and the
\* others succeeded.
C2_Witness ==
    /\ DispatcherReturned
    /\ Len(targets) >= 2
    /\ aggregate.failed = 1
    /\ aggregate.successful = Len(targets) - 1
    /\ \E i \in DOMAIN targets : IsInsufficientFunds(aggregate.results[i].error)

DistinctNames == \A i, j \in DOMAIN targets : i # j => targets[i].name # targets[j].name

\* C3: summary.addresses has a key exactly for the names of successful
\* results, each mapped to the address of a successful result of that name;
\* when the target names are pairwise distinct no failing target is a key,
\* every successful target maps to its own address and the map has exactly
\* `successful` entries.
C3_AddressesOnlyFromSuccesses ==
    DispatcherReturned =>
        LET rs == aggregate.results
            addresses == aggregate.summary.addresses
        IN  /\ DOMAIN addresses = {rs[i].chain : i \in {k \in DOMAIN rs : rs[k].success}}
            /\ \A name \in DOMAIN addresses :
                  \E i \in DOMAIN rs :
                     rs[i].success /\ rs[i].chain = name /\ rs[i].address = addresses[name]
            /\ DistinctNames =>
                  /\ Cardinality(DOMAIN addresses) = aggregate.successful
                  /\ \A i \in DOMAIN rs :
                        IF rs[i].success THEN addresses[rs[i].chain] = rs[i].address
                        ELSE rs[i].chain \notin DOMAIN addresses

\* C3 witness: distinct target names, one failed and one succeeded.
C3_Witness ==
    /\ DispatcherReturned
    /\ DistinctNames
    /\ aggregate.successful >= 1
    /\ aggregate.failed >= 1
    /\ Cardinality(DOMAIN aggregate.summary.addresses) = 1

C6_SameAddressOnEveryTarget ==
    call.useCreate2 =>
        \A i, j \in DOMAIN settled :
            (Succeeded(i) /\ Succeeded(j)) =>
                /\ settled[i].value.address = settled[j].value.address
                /\ settled[i].value.address # ADDRESS_PLACEHOLDER

\* C6 witness: two successful CREATE2 deployments to two different targets.
C6_Witness ==
    /\ call.useCreate2
    /\ \E i, j \in DOMAIN settled :
          /\ targets[i].chainId # targets[j].chainId
          /\ targets[i].name # targets[j].name
          /\ targets[i].rpc # targets[j].rpc
          /\ Succeeded(i)
          /\ Succeeded(j)

\* C7 (as claimed): no transaction is submitted with a gas price below
\* 0.01 gwei, in direct or CREATE2 mode.
C7_NoGasPriceBelowFloor ==
    \A i \in DOMAIN sent :
        \A k \in DOMAIN sent[i] : sent[i][k].gasPrice >= MIN_GAS_PRICE

\* C9 (as claimed): once Chimera.deploy has dispatched to a non-empty target
\* list it never rejects.
C9_DeployNeverRejectsAfterDispatch ==
    (call.entry = "chimera" /\ targets # <<>>) => outcome.kind # "rejected"

\* C10 (as claimed): a deploy invoked as the CLI does for --network <group>
\* dispatches to exactly the configured chains of that group.
C10_NetworkGroupSelectsGroup ==
    (/\ call.entry = "chimera"
     /\ call.options.chainGroup = ""
     /\ call.options.to \in {"testnet", "mainnet", "l2"}
     /\ call.options.chains = <<>>
     /\ call.options.excludeChains = <<>>
     /\ FilterByChainGroup(config, call.options.to) # <<>>)
    => targets = FilterByChainGroup(config, call.options.to)

\* C8: importFromFile applied a second time in a row to the same file
\* returns 0 and leaves the deployments of the manifest unchanged.
C8_ImportTwiceAddsOnce ==
    [][(/\ last.op = "importFromFile"
        /\ last.returned # NULL
        /\ last'.op = "importFromFile"
        /\ last'.path = last.path)
       => (last'.returned = 0 /\ manifest' = manifest)]_vars

\* C8 witness: the same file was imported twice in a row; the first import
\* added two records to a manifest that held one, the second added none.
C8_Witness ==
    /\ last.op = "importFromFile"
    /\ last.previousReturned = 2
    /\ last.returned = 0
    /\ Len(manifest) = 3

\* C11: addChain rejects with 'already exists' a chain whose name or chainId
\* is that of a configured chain and leaves the configuration unchanged (a
\* call goes on to validation only for a chain that shares neither), and in
\* every configuration reached from the default one by addChain and
\* removeChain the names are pairwise distinct and so are the chainIds.
C11_NoDuplicateChains ==
    /\ [](\A i, j \in DOMAIN config :
             i # j => /\ config[i].name # config[j].name
                      /\ config[i].chainId # config[j].chainId)
    /\ [][(last'.op = "addChain" /\ last'.outcome \in {"pending", "rejected"}
              /\ (last'.outcome = "rejected" => last'.error[1] = "Chain with name \""))
          => LET chain == last'.argument
                 shared == \E i \in DOMAIN config :
                              \/ config[i].name = chain.name
                              \/ config[i].chainId = chain.chainId
             IN  /\ config' = config
                 /\ shared <=> last'.outcome = "rejected"]_vars

\* C11 witness: after an addition, a chain with a new name and the chainId of
\* a configured chain was rejected with 'already exists'.
C11_Witness ==
    /\ last.op = "addChain"
    /\ last.outcome = "rejected"
    /\ last.error = AlreadyExists(SepoliaMirror)
    /\ Len(config) = 3
    /\ \E i \in DOMAIN config : config[i] = BaseSepolia
    /\ \E i \in DOMAIN config : config[i].chainId = SepoliaMirror.chainId

\* C12: removeChain(name) on a configured name removes the chain of that
\* name and keeps every other chain, in order, so that no chain of that name
\* remains; on a name that is not configured it throws 'not found' and leaves
\* the configuration unchanged.
C12_RemoveChainRemovesOnlyThat ==
    [][last'.op = "removeChain"
          => LET name == last'.argument
                 Other(c) == c.name # name
             IN  IF \E i \in DOMAIN config : config[i].name = name
                 THEN /\ last'.outcome = "resolved"
                      /\ config' = SelectSeq(config, Other)
                      /\ Len(config') = Len(config) - 1
                      /\ \A i \in DOMAIN config' : config'[i].name # name
                 ELSE /\ last'.outcome = "rejected"
                      /\ last'.error = <<"Chain \"", name, "\" not found">>
                      /\ config' = config]_vars

\* C12 witness: the first of three configured chains was removed and the
\* other two are left in their order.
C12_Witness ==
    /\ last.op = "removeChain"
    /\ last.outcome = "resolved"
    /\ last.argument = "Ethereum Sepolia"
    /\ config = <<ScrollSepolia, BaseSepolia>>

\* C13: while a dispatch is in progress every step concerns one target only:
\* it leaves the position, the promise and the transactions of every other
\* target as they were, whether that target fails, times out or succeeds; and
\* a target whose promise is pending always has its next network reply to
\* take, whatever has become of its siblings.
C13_TargetsAreIsolated ==
    /\ [](phase = "dispatched" =>
             \A j \in DOMAIN task :
                settled[j].status = "pending" =>
                   ENABLED (\/ EstimateGasReply(j) \/ FeeDataReply(j) \/ GetBalanceReply(j)
                            \/ SendReply(j) \/ ReceiptReply(j)))
    /\ [][phase = "dispatched" =>
             \E i \in DOMAIN task :
                \A j \in DOMAIN task \ {i} :
                   /\ task'[j] = task[j]
                   /\ settled'[j] = settled[j]
                   /\ sent'[j] = sent[j]]_vars

\* C13 witness: of two targets the second ended in a receipt-wait timeout
\* while the first was still pending, and the first went on to succeed.
C13_Witness ==
    /\ Len(targets) = 2
    /\ overtaken
    /\ Failed(2)
    /\ settled[2].value.error = <<"timeout">>
    /\ Succeeded(1)

\* C14 (as claimed): when neither options.privateKey nor PRIVATE_KEY holds a
\* key, the single-target call of a contract that compiles rejects instead of
\* resolving with a result.
C14_MissingKeyRejects ==
    (/\ targets # <<>>
     /\ EffectiveKey(call.options, call.envKey) = NO_KEY
     /\ CompileContract(call.contractPath).error = NO_ERROR)
    => \A i \in DOMAIN settled : settled[i].status = "rejected"

\* C15: in CREATE2 mode every transaction goes to the fixed factory address
\* with calldata = salt, creation bytecode, ABI-encoded constructor arguments,
\* in that order, and the address of a successful result is the one
\* calculateCREATE2Address gives for that salt, that init code (bytecode
\* followed by the encoded arguments) and the factory address.
C15_Create2PayloadAndAddress ==
    call.useCreate2 =>
        LET artifact == CompileContract(call.contractPath)
            encodedArgs == SubSeq(AbiEncode(call.options.args), 3, 4)
            salt == IF call.options.salt = NO_SALT THEN DEFAULT_CREATE2_SALT
                    ELSE call.options.salt
            initPayload == <<"0", "x">> \o artifact.bytecode \o encodedArgs
        IN  \A i \in DOMAIN settled :
               /\ \A k \in DOMAIN sent[i] :
                     /\ sent[i][k].to = CREATE2_FACTORY_ADDRESS
                     /\ sent[i][k].data = salt \o artifact.bytecode \o encodedArgs
               /\ Succeeded(i) =>
                     /\ Len(sent[i]) = 1
                     /\ settled[i].value.address =
                           CalculateCREATE2Address(salt, initPayload, CREATE2_FACTORY_ADDRESS)
                     /\ settled[i].value.salt = salt

\* C15 witness: a successful CREATE2 deployment under the default salt.
C15_Witness ==
    /\ call.useCreate2
    /\ call.options.salt = NO_SALT
    /\ \E i \in DOMAIN settled : Succeeded(i) /\ Len(sent[i]) = 1

\* C16 (as claimed): in either mode a failure of the gas-estimate call or of
\* the fee-data call never ends a deployment: no target ends with the
\* fee-data error as its result, and a target that is past estimation holds
\* either the inflated estimate of the network or the defaults
\* gasLimit = 3,000,000 and gasPrice = 0.1 gwei.
C16_EstimationErrorsFallBack ==
    \A i \in DOMAIN task :
        /\ settled[i].status = "fulfilled" =>
              settled[i].value.error # <<"could not get fee data">>
        /\ task[i].pc \in {"getBalance", "sendTransaction", "waitForTransaction"} =>
              \/ \E e \in GasEstimates :
                    task[i].gasLimit \in {DirectGasLimit(e), Create2GasLimit(e)}
              \/ /\ task[i].gasLimit = FALLBACK_GAS_LIMIT
                 /\ task[i].gasPrice = DEFAULT_GAS_PRICE

\* C17 (as claimed): in direct and in CREATE2 mode alike, a target whose gas
\* estimate succeeded with value e holds gasLimit = e * 120 / 100 + 100,000
\* for its balance check and its transaction (a gas limit other than the
\* ones set after a failed estimate comes from a successful one).
C17_GasLimitIsInflatedEstimate ==
    \A i \in DOMAIN task :
        (/\ task[i].pc \in {"getFeeData", "getBalance", "sendTransaction", "waitForTransaction"}
         /\ task[i].gasLimit # FALLBACK_GAS_LIMIT
         /\ task[i].gasLimit # ((CREATE2_FALLBACK_ESTIMATE * 12) \div 10) + CREATE2_BUFFER)
        => /\ \E e \in GasEstimates : task[i].gasLimit = ((e * 120) \div 100) + 100000
           /\ \A k \in DOMAIN sent[i] : sent[i][k].gasLimit = task[i].gasLimit

\* C18: after Chimera.deploy has returned with manifest saving enabled, the
\* manifest (empty before) holds exactly one record per result with
\* success = true, in the order of the results, each with the chain, chainId,
\* address, txHash and blockNumber of its result; a failed result has no
\* record, and without manifest saving nothing is recorded.
C18_RecordsOnlyForSuccesses ==
    phase = "resolved" =>
        LET rs == aggregate.results
            successes == {i \in DOMAIN rs : rs[i].success}
            Nth(k) == CHOOSE i \in successes :
                         Cardinality({j \in successes : j <= i}) = k
        IN  IF call.entry = "chimera" /\ call.options.saveManifest
            THEN /\ Len(manifest) = Cardinality(successes)
                 /\ \A k \in DOMAIN manifest :
                       /\ manifest[k].chain = rs[Nth(k)].chain
                       /\ manifest[k].chainId = rs[Nth(k)].chainId
                       /\ manifest[k].address = rs[Nth(k)].address
                       /\ manifest[k].txHash = rs[Nth(k)].txHash
                       /\ manifest[k].blockNumber = rs[Nth(k)].blockNumber
                       /\ manifest[k].address # ADDRESS_PLACEHOLDER
            ELSE manifest = <<>>

\* C18 witness: a saved deploy to two chains of which the first failed and
\* the second succeeded left the single record of the second.
C18_Witness ==
    /\ phase = "resolved"
    /\ call.entry = "chimera"
    /\ call.options.saveManifest
    /\ Len(targets) = 2
    /\ Failed(1)
    /\ Succeeded(2)
    /\ Len(manifest) = 1
    /\ manifest[1].chain = targets[2].name

\* C19: addDeployment, addDeployments and importFromFile leave the previous
\* deployments as a prefix of the new ones, a query and exportToFile leave the
\* manifest unchanged, and only clearDeployments makes the previous
\* deployments cease to be a prefix.
C19_ManifestIsAppendOnly ==
    [][LET extended == /\ Len(manifest) <= Len(manifest')
                       /\ SubSeq(manifest', 1, Len(manifest)) = manifest
       IN  /\ last'.op \in {"addDeployment", "addDeployments", "importFromFile"} => extended
           /\ last'.op \in {"getDeploymentsByChain", "exportToFile"} => manifest' = manifest
           /\ ~extended => last'.op = "clearDeployments"]_vars

\* C19 witness: an import added a record behind the two the manifest held.
C19_Witness ==
    /\ last.op = "importFromFile"
    /\ last.returned = 1
    /\ Len(manifest) = 3
    /\ manifest[3].id # manifest[1].id
    /\ manifest[3].id # manifest[2].id

\* C20 (as claimed): no two records of the manifest have the same id.
C20_IdsAreUnique ==
    \A i, j \in DOMAIN manifest : i # j => manifest[i].id # manifest[j].id

\* C21: when two addDeployments calls race on deployments.json, one call's
\* read-modify-write is serialized with the other's: the call that writes
\* leaves in the file what the file held at that moment, followed by its own
\* records, so that no update of the other call is lost.
C21_NoLostUpdate ==
    [][\A c \in Callers :
          appending[c].pc = "read" /\ appending'[c].pc = "done" =>
              manifest' = AddDeployments(manifest, appending[c].records)]_vars

C23_LatestSessionsFirst ==
    last.op = "getOmnichainSummary" =>
        LET S == last.returned
            all == SummaryValues(GroupDeployments(manifest))
        IN  /\ \A i, j \in DOMAIN S : i < j => S[i].timestamp >= S[j].timestamp
            /\ Len(S) <= (IF last.limit < 0 THEN 0 ELSE last.limit)
            /\ \A g \in Range(all) \ Range(S), h \in Range(S) : g.timestamp <= h.timestamp

\* C24: in every session getOmnichainSummary returns, chains names no target
\* twice and names exactly the targets that addresses has keys for.
C24_ChainsFormASet ==
    last.op = "getOmnichainSummary" =>
        \A g \in DOMAIN last.returned :
           LET chains == last.returned[g].chains
           IN  /\ \A i, j \in DOMAIN chains : i # j => chains[i] # chains[j]
               /\ Range(chains) = DOMAIN last.returned[g].addresses

\* C25: the records one Chimera.deploy call adds to the manifest make up one
\* session of getOmnichainSummary, and are merged into no session of an
\* earlier call: the call adds exactly one session.
C25_RunIsOneSession ==
    [][last'.op = "deploy" /\ manifest' # manifest =>
          Len(GetOmnichainSummary(manifest', Len(manifest')))
             = Len(GetOmnichainSummary(manifest, Len(manifest))) + 1]_vars

\* C26: a compilation error of the artifact is fatal to the whole request.
\* Chimera.deploy raises it before dispatch begins: no per-target deployment
\* is started and no aggregate result is returned.
C26_CompilationErrorIsFatal ==
    call.entry = "chimera" /\ CompileContract(call.contractPath).error # NO_ERROR =>
        /\ targets = <<>>
        /\ phase = "rejected"
        /\ aggregate = NoAggregate

\* C27: a requested target that is absent from the registry is fatal before
\* dispatch. When options.to or options.chains names a chain that is not
\* configured, Chimera.deploy throws and deploys to no target at all.
C27_AbsentTargetIsFatal ==
    LET configured == {config[i].name : i \in DOMAIN config}
        requested == Range(call.options.chains)
                        \cup (IF call.options.to \in {"", "all"} THEN {}
                              ELSE {call.options.to})
    IN  call.entry = "chimera" /\ ~(requested \subseteq configured) =>
           /\ targets = <<>>
           /\ phase = "rejected"
           /\ \A i \in DOMAIN sent : sent[i] = <<>>

C29_SuccessNeedsReceipt ==
    /\ [](\A i \in DOMAIN settled :
             /\ settled[i].status # "rejected"
             /\ Succeeded(i) => Len(sent[i]) = 1
             /\ task[i].pc = "waitForTransaction" =>
                   /\ Len(sent[i]) = 1
                   /\ ~InsufficientFunds(task[i].balance, sent[i][1].gasLimit,
                                         sent[i][1].gasPrice)
                   /\ \A reply \in ReceiptReplies :
                         LET settlement == ReceiptSettlement(i, reply)
                         IN  /\ settlement.status = "fulfilled"
                             /\ settlement.value.success
                                   <=> (reply.kind = "receipt" /\ reply.status = 1))
    /\ [][\A i \in DOMAIN settled :
             i \in DOMAIN settled' /\ ~settled[i].value.success /\ settled'[i].value.success
                => task[i].pc = "waitForTransaction"]_vars

\* One target has succeeded while another failed after its transaction was
\* submitted, for want of a successful receipt.
C29_Witness ==
    \E i, j \in DOMAIN settled :
       /\ Succeeded(i)
       /\ Failed(j)
       /\ Len(sent[j]) = 1
       /\ settled[j].value.error[1] \in {"timeout", "Transaction failed on ",
                                          "CREATE2 deployment failed on "}

\* C30: every result with success = false carries the address '0x0', the
\* txHash '' and the blockNumber 0 together with its target's own name and
\* chainId, also when its transaction had been submitted; every result with
\* success = true carries the hash of the transaction the network accepted
\* and the block number of its receipt. This holds of the results the calls
\* return and of the results the dispatcher hands back.
C30_FailuresCarryPlaceholders ==
    LET Shaped(result, i) ==
            IF result.success
            THEN /\ Len(sent[i]) = 1
                 /\ \E nonce \in Nonces : result.txHash = TxHashOf(targets[i].chainId, nonce)
                 /\ result.blockNumber \in BlockNumbers
            ELSE /\ result.address = ADDRESS_PLACEHOLDER
                 /\ result.txHash = EMPTY_TXHASH
                 /\ result.blockNumber = 0
                 /\ result.chain = targets[i].name
                 /\ result.chainId = targets[i].chainId
    IN  /\ \A i \in DOMAIN settled :
              settled[i].status # "pending" => Shaped(settled[i].value, i)
        /\ DispatcherReturned =>
              \A i \in DOMAIN aggregate.results : Shaped(aggregate.results[i], i)

\* The dispatcher has returned a failure for a target whose transaction had
\* been submitted, next to a success.
C30_Witness ==
    /\ DispatcherReturned
    /\ \E i, j \in DOMAIN aggregate.results :
          /\ ~aggregate.results[i].success
          /\ Len(sent[i]) = 1
          /\ aggregate.results[i].error[1] \in {"timeout", "Transaction failed on ",
                                                "CREATE2 deployment failed on "}
          /\ aggregate.results[j].success
          /\ aggregate.results[j].blockNumber \in BlockNumbers

====
